---- MODULE Spec2Model ----
(***************************************************************************)
(* A model of asyncinotify/inotify.py: the Inotify handle (watch registry, *)
(* event queue, readiness callback _get, coroutine get, close and the      *)
(* context manager), the kernel side that queues reads on the descriptor,  *)
(* and the asyncio selector event loop the handle is driven by.            *)
(***************************************************************************)
EXTENDS Integers, Sequences, FiniteSets, TLC

(* ------------------------------ bounds --------------------------------- *)

\* bulk reads the kernel queues on the descriptor during one run
MaxReads == 2
\* records in one bulk read
MaxRecs == 3
\* futures created by get() during one run
MaxFutures == 3
\* Watch objects created by add_watch during one run
MaxWatchObjs == 1
\* Watch objects created during one run of a program that registers several
MaxRegistered == 2
\* calls of close() (explicit or by __exit__) during one run
MaxCloses == 2
\* records in the single read of the decoder specification
MaxDecodeRecs == 2

(* --------------------------- byte encoding ----------------------------- *)

\* sizeof(struct inotify_event): four 32-bit fields wd, mask, cookie, len
inotify_event_size == 16

\* The kernel's side: a 32-bit value as four bytes, native (little-endian)
\* order; a negative wd is stored in two's complement (\div rounds down and
\* % is never negative). The model's values stay below 2^31.
LE32(n) ==
    << n % 256, (n \div 256) % 256, (n \div 65536) % 256, (n \div 16777216) % 256 >>

\* One record as the kernel writes it: header, then len = Len(trailer) bytes.
EncodeRecord(r) ==
    LE32(r.wd) \o LE32(r.mask) \o LE32(r.cookie) \o LE32(Len(r.trailer)) \o r.trailer

RECURSIVE EncodeRecords(_)
EncodeRecords(recs) ==
    IF recs = <<>> THEN <<>>
    ELSE EncodeRecord(Head(recs)) \o EncodeRecords(Tail(recs))

\* What os.read returns for a queued read: its records back to back, less
\* the last `cut` bytes (cut = 0 for the reads a real inotify descriptor gives).
ReadBytes(rd) ==
    LET all == EncodeRecords(rd.recs)
    IN  SubSeq(all, 1, Len(all) - rd.cut)

(* ------------------------------ decoding ------------------------------- *)

\* BytesIO.read(n) at offset pos: at most n bytes, fewer at the end.
BufferRead(buf, pos, n) ==
    SubSeq(buf, pos + 1, IF pos + n <= Len(buf) THEN pos + n ELSE Len(buf))

\* An unsigned 32-bit field of the header, at byte offset off.
U32At(hdr, off) ==
    hdr[off + 1] + 256 * hdr[off + 2] + 65536 * hdr[off + 3] + 16777216 * hdr[off + 4]

\* A signed 32-bit field: a top byte of 128 or more makes it negative.
S32At(hdr, off) ==
    hdr[off + 1] + 256 * hdr[off + 2] + 65536 * hdr[off + 3]
      + 16777216 * (IF hdr[off + 4] >= 128 THEN hdr[off + 4] - 256 ELSE hdr[off + 4])

\* inotify_event.from_buffer_copy: wd is a signed int, the rest unsigned.
from_buffer_copy(hdr) ==
    [ wd     |-> S32At(hdr, 0),
      mask   |-> U32At(hdr, 4),
      cookie |-> U32At(hdr, 8),
      len    |-> U32At(hdr, 12) ]

\* bytes.find(0): index of the first zero byte, counted from 0, or -1.
Find0(raw) ==
    IF \E i \in 1..Len(raw) : raw[i] = 0
    THEN (CHOOSE i \in 1..Len(raw) : raw[i] = 0 /\ \A j \in 1..(i - 1) : raw[j] # 0) - 1
    ELSE -1

\* bytes.decode('utf-8', 'surrogateescape') on the bytes the model uses:
\* an ASCII byte is its own code point, a byte that can start no UTF-8
\* sequence (0xFF) becomes the lone surrogate U+DC00 + byte.
SurrogateEscape(raw) ==
    [ i \in 1..Len(raw) |-> IF raw[i] < 128 THEN raw[i] ELSE 56320 + raw[i] ]

\* pathlib.Path(s) for a string without separators: the empty string is
\* normalised to ".", any other string is kept. A path is a non-empty
\* sequence of code points.
Path(s) == IF s = <<>> THEN << 46 >> ELSE s

\* name = None
None == <<>>

\* the name taken without cutting the padding off
ExtractNameWhole(length, raw_name) ==
    IF length > 0
    THEN IF Find0(raw_name) # 0 THEN Path(SurrogateEscape(raw_name)) ELSE None
    ELSE None

\* Lines 193-204 of _get: the name of one record from the bytes read for
\* its trailer.
ExtractName(length, raw_name) ==
    IF length > 0
    THEN LET zero_pos == Find0(raw_name)
         IN  IF zero_pos # 0
             THEN Path(SurrogateEscape(IF zero_pos > 0
                                       THEN SubSeq(raw_name, 1, zero_pos)
                                       ELSE raw_name))
             ELSE None
    ELSE None

\* the registry kept as a list and indexed by wd: -1 is its last Watch
WatchesGetIndexed(registry, wd) ==
    IF wd \in DOMAIN registry THEN registry[wd]
    ELSE IF wd = -1 /\ DOMAIN registry # {}
    THEN registry[CHOOSE d \in DOMAIN registry : \A o \in DOMAIN registry : o <= d]
    ELSE 0

\* self._watches.get(wd): the Watch object registered under wd, or 0 (None).
WatchesGet(registry, wd) ==
    IF wd \in DOMAIN registry THEN registry[wd] ELSE 0

\* Event.__init__ with mask and cookie stored in each other's place
EventSwapped(watch, mask, cookie, name) ==
    [ watch |-> watch, mask |-> cookie, cookie |-> mask, name |-> name ]

\* Event(watch, mask, cookie, name): the reference to the watch is weak and
\* is kept as the object's identity; 0 is "no watch".
Event(watch, mask, cookie, name) ==
    [ watch |-> watch, mask |-> mask, cookie |-> cookie, name |-> name ]

\* The loop of _get from offset pos on. The result is [ok, events]: ok is
\* FALSE when from_buffer_copy raised on a header shorter than
\* inotify_event_size, and then no list of events exists.
RECURSIVE DecodeFrom(_, _, _)
DecodeFrom(buf, pos, registry) ==
    LET event_buffer == BufferRead(buf, pos, inotify_event_size)
    IN  IF event_buffer = <<>>
        THEN [ ok |-> TRUE, events |-> <<>> ]
        ELSE IF Len(event_buffer) < inotify_event_size
        THEN [ ok |-> FALSE, events |-> <<>> ]
        ELSE LET event_struct == from_buffer_copy(event_buffer)
                 length   == event_struct.len
                 raw_name == IF length > 0
                             THEN BufferRead(buf, pos + inotify_event_size, length)
                             ELSE <<>>
                 event    == Event(WatchesGet(registry, event_struct.wd),
                                   event_struct.mask,
                                   event_struct.cookie,
                                   ExtractName(length, raw_name))
                 rest     == DecodeFrom(buf,
                                        pos + inotify_event_size + Len(raw_name),
                                        registry)
             IN  [ ok |-> rest.ok,
                   events |-> IF rest.ok THEN << event >> \o rest.events ELSE <<>> ]

\* _get with offset starting past the first header
DecodeFromHeaderSize(buf, registry) == DecodeFrom(buf, inotify_event_size, registry)

\* _get up to future.set_result: decode the whole buffer.
Decode(buf, registry) == DecodeFrom(buf, 0, registry)

(* ------------------------------- state --------------------------------- *)

VARIABLES
    fd,          \* what the number self._fd names in the process: "inotify"
                 \* (the handle's instance), "closed", or "other" (the number
                 \* was given to a file opened later by the same process)
    releases,    \* history: calls of os.close(self._fd) that released a descriptor
    closeCalls,  \* history: calls of close()
    inScope,     \* the `with` block the handle was opened in has not been left
    watchObjs,   \* the Watch objects created so far; a Watch is named by its index
    _watches,    \* self._watches: descriptor -> Watch
    held,        \* the Watches the callers of add_watch still hold
    addFailed,   \* history: an add_watch call has failed
    addCalls,    \* history: the path and mask each Watch was asked for
    kwd,         \* kernel: directory -> descriptor of the watch on it, 0 when none
    _events,     \* self._events; None and [] are both "not self._events"
    reader,      \* event loop: the future bound to the reader of self._fd, 0 when none
    futures,     \* the futures created by get(), in creation order
    pc,          \* per task: "idle" or "awaiting" (suspended at `await future`)
    fut,         \* per task: the future it awaits
    mustCancel,  \* per task: cancel() was requested after its future was done
    outcome,     \* per task: how its last get() ended
    pending,     \* kernel: the reads queued on the descriptor, oldest first
    nreads,      \* history: reads queued so far
    readLog,     \* history: the records of the reads os.read has returned, with
                 \* the Watch registered under each record's wd at that time
    returned,    \* history: the Events get() has returned, in order
    lost,        \* history: Events decoded by _get whose set_result raised
    cancels      \* history: a suspended get() has been cancelled

vars == << fd, releases, closeCalls, inScope, watchObjs, _watches, held, addFailed,
           addCalls, kwd, _events,
           reader, futures, pc, fut, mustCancel, outcome, pending, nreads,
           readLog, returned, lost, cancels >>

handleVars == << fd, releases, closeCalls, inScope >>
watchVars  == << watchObjs, _watches, held, addFailed, addCalls, kwd >>
taskVars   == << pc, fut, mustCancel, outcome >>
kernelVars == << pending, nreads >>

\* the tasks that may call get()
Tasks == {1, 2}
\* the task of the single consumer
Consumer == 1

\* the paths and masks add_watch is called with
Paths == {"a", "b", "c"}
\* the directory a path names: "c" is another name of the directory "a"
\* (a symbolic link to it, or the same path spelled differently)
Directory(path) == IF path = "c" THEN "a" ELSE path
Directories == { Directory(p) : p \in Paths }
CREATE == 256
MODIFY == 2
Q_OVERFLOW == 16384
AddMasks == {CREATE, MODIFY}

(* ------------------------------ kernel --------------------------------- *)

\* the descriptors the kernel has handed out for this instance
KnownWds == { kwd[d] : d \in Directories } \ {0}

\* the records the kernel has queued so far
RECURSIVE QueuedIn(_)
QueuedIn(reads) ==
    IF reads = <<>> THEN 0 ELSE Len(Head(reads).recs) + QueuedIn(Tail(reads))

Queued == Len(readLog) + QueuedIn(pending)

\* The k-th record of the kernel's stream when it comes from source w: a
\* file named by the k-th letter was created in the directory watched
\* under w (name NUL-terminated), or, for w = -1, the queue overflowed
\* (no name, no cookie).
KernelRecord(w, k) ==
    IF w = -1
    THEN [ wd |-> -1, mask |-> Q_OVERFLOW, cookie |-> 0, trailer |-> <<>> ]
    ELSE [ wd |-> w, mask |-> CREATE, cookie |-> 0, trailer |-> << 96 + k, 0 >> ]

\* The kernel queues one more read of n whole records on the descriptor.
Deliver ==
    /\ fd = "inotify"
    /\ nreads < MaxReads
    /\ \E n \in 0..MaxRecs, w \in KnownWds \cup {-1} :
          pending' = Append(pending,
                            [ recs |-> [ i \in 1..n |-> KernelRecord(w, Queued + i) ],
                              cut  |-> 0 ])
    /\ nreads' = nreads + 1
    /\ UNCHANGED << handleVars, watchVars, taskVars, _events, reader, futures,
                    readLog, returned, lost, cancels >>

(* ----------------------------- add_watch ------------------------------- *)

\* The kernel's inotify_add_watch succeeding: the descriptor of the watch
\* on the directory path names, a new one (the next integer) when that
\* directory is not watched yet.
inotify_add_watch(path) ==
    IF kwd[Directory(path)] # 0 THEN kwd[Directory(path)] ELSE Cardinality(KnownWds) + 1

\* what the kernel may answer: the descriptor, or -1 with errno set (the
\* path is gone, access is denied, the limit of watches is reached)
KernelResults(path) == { inotify_add_watch(path), -1 }

\* libc.inotify_add_watch as ffi wraps it: TRUE when the call returns its
\* value, FALSE when it raises the error of a failed registration.
check_return(value) == value # -1

\* Watch.__init__ keeping the resolved path in place of the one given
WatchResolved(path, mask, wd) == [ wd |-> wd, path |-> Directory(path), mask |-> mask ]

\* Watch.__init__, the kernel having answered wd
Watch(path, mask, wd) == [ wd |-> wd, path |-> path, mask |-> mask ]

\* self._watches.setdefault(watch.wd, watch): the first Watch of a
\* descriptor stays
RegisterFirst(registry, wd, id) == registry @@ (wd :> id)

\* self._watches[watch.wd] = watch
Register(registry, wd, id) == (wd :> id) @@ registry

\* add_watch from the return of libc.inotify_add_watch on: the Watch is
\* built, registered and returned to the caller, who holds it.
AddWatchReturns(path, mask, wd) ==
    LET watch == Watch(path, mask, wd)
        id    == Len(watchObjs) + 1
    IN  /\ watchObjs' = Append(watchObjs, watch)
        /\ kwd' = IF wd = -1 THEN kwd ELSE [ kwd EXCEPT ![Directory(path)] = wd ]
        /\ _watches' = Register(_watches, watch.wd, id)
        /\ held' = held \cup {id}
        /\ addCalls' = Append(addCalls, [ path |-> path, mask |-> mask ])

\* add_watch with the answer of the kernel taken as it comes: a failed
\* registration gives a Watch of descriptor -1
add_watch_unchecked(path, mask) ==
    /\ fd = "inotify"
    /\ \E wd \in KernelResults(path) :
          /\ AddWatchReturns(path, mask, wd)
          /\ addFailed' = (addFailed \/ wd = -1)
    /\ UNCHANGED << handleVars, taskVars, kernelVars, _events, reader, futures,
                    readLog, returned, lost, cancels >>

\* Inotify.add_watch. When the registration fails, Watch.__init__ raises
\* out of add_watch before the registry is touched, and the Watch under
\* construction is dropped.
add_watch(path, mask) ==
    /\ fd = "inotify"
    /\ \E wd \in KernelResults(path) :
          IF check_return(wd)
          THEN /\ AddWatchReturns(path, mask, wd)
               /\ UNCHANGED addFailed
          ELSE /\ addFailed' = TRUE
               /\ UNCHANGED << watchObjs, _watches, held, addCalls, kwd >>
    /\ UNCHANGED << handleVars, taskVars, kernelVars, _events, reader, futures,
                    readLog, returned, lost, cancels >>

(* -------------------------------- get ---------------------------------- *)

\* a future as event_loop.create_future() returns it
NewFuture == [ state |-> "pending", result |-> <<>> ]

\* the test taken as "at most one left"
NotEventsOffByOne(list) == Len(list) <= 1

\* `not self._events`: the queue is None or empty
NotEvents(list) == list = <<>>

\* self._events.pop() in place of pop(0): the last Event is returned
PopLast(t, list) ==
    /\ _events' = SubSeq(list, 1, Len(list) - 1)
    /\ returned' = Append(returned, list[Len(list)])
    /\ outcome' = [ outcome EXCEPT ![t] = "Event" ]

\* self._events.pop(0) on a non-empty list, the Event being returned to t
Pop(t, list) ==
    /\ _events' = Tail(list)
    /\ returned' = Append(returned, Head(list))
    /\ outcome' = [ outcome EXCEPT ![t] = "Event" ]

\* add_reader leaving a callback already registered for the descriptor
add_reader_keep(old, new) == IF old # 0 THEN old ELSE new

\* event_loop.add_reader(self._fd, self._get, future): the future the
\* reader callback of the descriptor is bound to afterwards, old being the
\* one it was bound to (0 for none). The callback is replaced.
add_reader(old, new) == new

\* Task t calls get() and runs it up to its return or to `await future`.
\* add_reader replaces the callback of a descriptor the selector already
\* knows without a system call; it registers an unknown descriptor with
\* the selector, which raises OSError on a closed one.
get(t) ==
    /\ pc[t] = "idle"
    /\ IF ~NotEvents(_events)
       THEN /\ Pop(t, _events)
            /\ UNCHANGED << reader, futures, pc, fut >>
       ELSE /\ Len(futures) < MaxFutures
            /\ futures' = Append(futures, NewFuture)
            /\ IF reader # 0 \/ fd # "closed"
               THEN /\ reader' = add_reader(reader, Len(futures) + 1)
                    /\ fut' = [ fut EXCEPT ![t] = Len(futures) + 1 ]
                    /\ pc' = [ pc EXCEPT ![t] = "awaiting" ]
                    /\ outcome' = [ outcome EXCEPT ![t] = "none" ]
               ELSE /\ outcome' = [ outcome EXCEPT ![t] = "OSError" ]
                    /\ UNCHANGED << reader, fut, pc >>
            /\ UNCHANGED << _events, returned >>
    /\ UNCHANGED << handleVars, watchVars, kernelVars, mustCancel, readLog, lost, cancels >>

\* a loop that runs the reader callback ahead of the tasks it has woken
WakeupNever(t) == FALSE

\* a task whose future has a result set and which has not run since
WakeupScheduled(t) == pc[t] = "awaiting" /\ futures[fut[t]].state = "done"

\* the records of a read as the log keeps them
Logged(recs) ==
    [ i \in 1..Len(recs) |->
        [ rec |-> recs[i], watch |-> WatchesGet(_watches, recs[i].wd) ] ]

\* The event loop finds the descriptor readable and runs the reader
\* callback _get(future). The loop runs callbacks in the order they were
\* scheduled, so a task woken by an earlier set_result runs before the
\* callback is run again. An exception of the callback (ValueError of
\* from_buffer_copy, InvalidStateError of set_result on a future that is not
\* pending) is logged by the loop, and the reader stays registered.
_get ==
    /\ reader # 0
    /\ fd = "inotify"
    /\ pending # <<>>
    /\ \A t \in Tasks : ~WakeupScheduled(t)
    /\ LET rd      == Head(pending)
           decoded == Decode(ReadBytes(rd), _watches)
       IN  /\ pending' = Tail(pending)
           /\ readLog' = readLog \o Logged(rd.recs)
           /\ IF ~decoded.ok
              THEN UNCHANGED << futures, lost >>
              ELSE IF futures[reader].state = "pending"
              THEN /\ futures' = [ futures EXCEPT ![reader] =
                                     [ state |-> "done", result |-> decoded.events ] ]
                   /\ UNCHANGED lost
              ELSE /\ lost' = lost \o decoded.events
                   /\ UNCHANGED futures
    /\ UNCHANGED << handleVars, watchVars, taskVars, _events, reader, nreads,
                    returned, cancels >>

\* Task t runs again after its future was resolved or cancelled: the rest
\* of get() after `await future`, or CancelledError raised at the await.
get_resume(t) ==
    /\ pc[t] = "awaiting"
    /\ futures[fut[t]].state # "pending"
    /\ pc' = [ pc EXCEPT ![t] = "idle" ]
    /\ mustCancel' = [ mustCancel EXCEPT ![t] = FALSE ]
    /\ IF futures[fut[t]].state = "cancelled" \/ mustCancel[t]
       THEN /\ outcome' = [ outcome EXCEPT ![t] = "CancelledError" ]
            /\ UNCHANGED << _events, reader, returned >>
       ELSE /\ reader' = 0
            /\ IF futures[fut[t]].result = <<>>
               THEN /\ _events' = <<>>
                    /\ outcome' = [ outcome EXCEPT ![t] = "IndexError" ]
                    /\ UNCHANGED returned
               ELSE Pop(t, futures[fut[t]].result)
    /\ UNCHANGED << handleVars, watchVars, kernelVars, futures, fut, readLog,
                    lost, cancels >>

\* Task.cancel() on a task suspended in get(): a pending future is
\* cancelled, a future that already has its result is left alone and the
\* task is marked to raise CancelledError when it runs.
cancel(t) ==
    /\ pc[t] = "awaiting"
    /\ ~mustCancel[t]
    /\ futures[fut[t]].state # "cancelled"
    /\ IF futures[fut[t]].state = "pending"
       THEN /\ futures' = [ futures EXCEPT ![fut[t]].state = "cancelled" ]
            /\ UNCHANGED mustCancel
       ELSE /\ mustCancel' = [ mustCancel EXCEPT ![t] = TRUE ]
            /\ UNCHANGED futures
    /\ cancels' = TRUE
    /\ UNCHANGED << handleVars, watchVars, kernelVars, _events, reader, pc, fut,
                    outcome, readLog, returned, lost >>

(* ------------------------------- close --------------------------------- *)

\* os.close(self._fd): releases whatever the number names now, and raises
\* OSError when it names nothing. The inotify instance goes with its queue.
os_close ==
    /\ fd' = "closed"
    /\ releases' = IF fd # "closed" THEN releases + 1 ELSE releases
    /\ pending' = IF fd = "inotify" THEN <<>> ELSE pending

\* Inotify.close
close ==
    /\ closeCalls < MaxCloses
    /\ closeCalls' = closeCalls + 1
    /\ os_close
    /\ UNCHANGED << inScope, watchVars, taskVars, _events, reader, futures, nreads,
                    readLog, returned, lost, cancels >>

\* Inotify.__exit__: the `with` block is left, by return, exception or
\* cancellation alike.
__exit__ ==
    /\ inScope
    /\ inScope' = FALSE
    /\ closeCalls < MaxCloses
    /\ closeCalls' = closeCalls + 1
    /\ os_close
    /\ UNCHANGED << watchVars, taskVars, _events, reader, futures, nreads,
                    readLog, returned, lost, cancels >>

\* The process opens another file and the kernel gives it the lowest free
\* number, the one self._fd still holds.
FdReuse ==
    /\ fd = "closed"
    /\ fd' = "other"
    /\ UNCHANGED << releases, closeCalls, inScope, watchVars, taskVars, kernelVars,
                    _events, reader, futures, readLog, returned, lost, cancels >>

(* --------------------------- specifications ---------------------------- *)

\* Inotify.__init__, inside `with Inotify() as inotify:`
Init ==
    /\ fd = "inotify"
    /\ releases = 0
    /\ closeCalls = 0
    /\ inScope = TRUE
    /\ watchObjs = <<>>
    /\ _watches = <<>>
    /\ held = {}
    /\ addFailed = FALSE
    /\ addCalls = <<>>
    /\ kwd = [ d \in Directories |-> 0 ]
    /\ _events = <<>>
    /\ reader = 0
    /\ futures = <<>>
    /\ pc = [ t \in Tasks |-> "idle" ]
    /\ fut = [ t \in Tasks |-> 0 ]
    /\ mustCancel = [ t \in Tasks |-> FALSE ]
    /\ outcome = [ t \in Tasks |-> "none" ]
    /\ pending = <<>>
    /\ nreads = 0
    /\ readLog = <<>>
    /\ returned = <<>>
    /\ lost = <<>>
    /\ cancels = FALSE

\* One consumer task: its get() calls are serialised.
Next ==
    \/ Deliver
    \/ /\ Len(watchObjs) < MaxWatchObjs
       /\ \E path \in Paths, mask \in AddMasks : add_watch(path, mask)
    \/ get(Consumer)
    \/ _get
    \/ get_resume(Consumer)
    \/ cancel(Consumer)
    \/ close
    \/ __exit__
    \/ FdReuse

Spec == Init /\ [][Next]_vars

\* A step of the reader callback, told by what every run of _get does and
\* no other step: it takes the oldest read off the open descriptor. It is
\* enabled exactly when _get is.
ReaderRuns ==
    /\ reader # 0
    /\ fd = "inotify"
    /\ pending # <<>>
    /\ \A t \in Tasks : ~WakeupScheduled(t)
    /\ pending' = Tail(pending)
    /\ fd' = fd

\* The event loop runs what is ready: the reader callback of a readable
\* descriptor and a task whose future is resolved or cancelled. Calls of
\* get(), cancel() and close() are the program's choice.
FairSpec ==
    Init /\ [][Next]_vars /\ WF_pending(ReaderRuns) /\ WF_vars(get_resume(Consumer))

(* ------------------------- truncated reads ----------------------------- *)

\* how many bytes a truncated read may lack: part of a two-byte trailer,
\* all of it, one byte of the header too, all but one byte of the header
Cuts == {1, 2, 3, inotify_event_size + 1}

\* A resource that breaks the protocol queues a read whose last record is
\* cut short.
DeliverTruncated ==
    /\ fd = "inotify"
    /\ nreads < MaxReads
    /\ \E n \in 1..MaxRecs, w \in KnownWds \cup {-1}, cut \in Cuts :
          /\ cut < Len(EncodeRecord(KernelRecord(w, Queued + n)))
          /\ pending' = Append(pending,
                               [ recs |-> [ i \in 1..n |-> KernelRecord(w, Queued + i) ],
                                 cut  |-> cut ])
    /\ nreads' = nreads + 1
    /\ UNCHANGED << handleVars, watchVars, taskVars, _events, reader, futures,
                    readLog, returned, lost, cancels >>

\* One consumer draining a descriptor that may deliver truncated reads.
NextTrunc ==
    \/ Deliver
    \/ DeliverTruncated
    \/ /\ Len(watchObjs) < MaxWatchObjs
       /\ \E path \in Paths, mask \in AddMasks : add_watch(path, mask)
    \/ get(Consumer)
    \/ _get
    \/ get_resume(Consumer)

SpecTrunc == Init /\ [][NextTrunc]_vars

(* ----------------------- decoder specification ------------------------- *)

ISDIR == 1073741824

\* trailers of one read: none, all padding, a padded name, a name filling
\* the trailer, a name followed by bytes after its zero, a non-UTF-8 name
DecodeTrailers ==
    { <<>>, << 0, 0 >>, << 102, 0 >>, << 102, 111 >>, << 102, 0, 111, 0 >>, << 255, 0 >> }

DecodeRecords ==
    [ wd : {-1, 1}, mask : {CREATE, CREATE + ISDIR}, cookie : {0, 513},
      trailer : DecodeTrailers ]

\* the sequences of at most n elements of S
SeqsUpTo(S, n) == UNION { [ 1..k -> S ] : k \in 0..n }

\* A handle with one watch (add_watch("a", CREATE) gave descriptor 1) and
\* one read of any records queued on its descriptor.
InitDecode ==
    /\ fd = "inotify"
    /\ releases = 0
    /\ closeCalls = 0
    /\ inScope = TRUE
    /\ watchObjs = << [ wd |-> 1, path |-> "a", mask |-> CREATE ] >>
    /\ _watches = (1 :> 1)
    /\ held = {1}
    /\ addFailed = FALSE
    /\ addCalls = << [ path |-> "a", mask |-> CREATE ] >>
    /\ kwd = [ d \in Directories |-> IF d = "a" THEN 1 ELSE 0 ]
    /\ _events = <<>>
    /\ reader = 0
    /\ futures = <<>>
    /\ pc = [ t \in Tasks |-> "idle" ]
    /\ fut = [ t \in Tasks |-> 0 ]
    /\ mustCancel = [ t \in Tasks |-> FALSE ]
    /\ outcome = [ t \in Tasks |-> "none" ]
    /\ \E recs \in SeqsUpTo(DecodeRecords, MaxDecodeRecs) :
          pending = << [ recs |-> recs, cut |-> 0 ] >>
    /\ nreads = 1
    /\ readLog = <<>>
    /\ returned = <<>>
    /\ lost = <<>>
    /\ cancels = FALSE

\* The consumer drains the read.
NextDecode ==
    \/ get(Consumer)
    \/ _get
    \/ get_resume(Consumer)

SpecDecode == InitDecode /\ [][NextDecode]_vars

(* ------------------------- what a record means ------------------------- *)

\* os.fsencode of a name: the bytes a path of code points stands for
FsEncode(name) ==
    [ i \in 1..Len(name) |-> IF name[i] < 128 THEN name[i] ELSE name[i] - 56320 ]

\* name is the name the trailer carries: absent for an empty trailer or a
\* leading zero byte, else the bytes before the first zero byte, or all of
\* them when there is none.
NameIs(name, trailer) ==
    IF Len(trailer) = 0 \/ trailer[1] = 0
    THEN name = None
    ELSE \E k \in 1..Len(trailer) :
            /\ \A j \in 1..k : trailer[j] # 0
            /\ k = Len(trailer) \/ trailer[k + 1] = 0
            /\ name # None
            /\ FsEncode(name) = SubSeq(trailer, 1, k)

\* the Watch registered under wd in registry, 0 when there is none
Registered(registry, wd) ==
    IF \E d \in DOMAIN registry : d = wd THEN registry[wd] ELSE 0

\* Event e is the Event of record rec, looked up in registry
EventOf(e, rec, watch) ==
    /\ e.watch = watch
    /\ e.mask = rec.mask
    /\ e.cookie = rec.cookie
    /\ NameIs(e.name, rec.trailer)

(* -------------------------------- C1 ----------------------------------- *)

\* C1: with one consumer and no get() cancelled, the Events get() has
\* returned are, one for one and in order, the first records of the reads
\* os.read has returned, taken in the order of the reads.
C1_ReturnedIsPrefixOfReads ==
    ~cancels =>
        /\ Len(returned) <= Len(readLog)
        /\ \A i \in 1..Len(returned) :
              EventOf(returned[i], readLog[i].rec, readLog[i].watch)

\* Two reads of named records were returned in full, none cancelled.
C1_Witness ==
    /\ ~cancels
    /\ nreads = 2
    /\ Len(readLog) >= 4
    /\ Len(returned) = Len(readLog)
    /\ \A i, j \in 1..Len(returned) : i # j => returned[i].name # returned[j].name

(* -------------------------------- C2 ----------------------------------- *)

\* the step is a run of _get that hands a decoded read to future f
Resolves(f) == futures[f].state = "pending" /\ futures'[f].state = "done"

\* C2: when _get decodes a read of N well-formed records it hands over
\* exactly N Events, the i-th being the Event of the i-th record: its mask
\* and cookie, the Watch registered under its wd, the name of its trailer.
C2_OneEventPerRecord ==
    [][ \A f \in 1..Len(futures) :
          Resolves(f) =>
            LET recs   == Head(pending).recs
                events == futures'[f].result
            IN  /\ Len(events) = Len(recs)
                /\ \A i \in 1..Len(recs) :
                      EventOf(events[i], recs[i], Registered(_watches, recs[i].wd)) ]_vars

\* A read of two records was decoded: the first with a padded name and a
\* watch, the second the nameless record of wd -1 with another cookie.
C2_Witness ==
    /\ Len(futures) = 1
    /\ futures[1].state = "done"
    /\ Len(readLog) = 2
    /\ readLog[1].rec.trailer = << 102, 0, 111, 0 >>
    /\ readLog[1].rec.wd = 1
    /\ readLog[1].rec.cookie = 513
    /\ readLog[2].rec.wd = -1
    /\ readLog[2].rec.trailer = <<>>
    /\ futures[1].result[1].name = << 102 >>
    /\ futures[1].result[2].watch = 0

(* -------------------------------- C3 ----------------------------------- *)

\* C3: while the queue holds events, the only change to it is a get() that
\* returns its first event and leaves the rest, and no step registers a
\* reader, creates a future, suspends a task or reads the descriptor for
\* that get(); so K buffered events are returned by the next K calls in order.
C3_BufferedEventsServedInOrder ==
    [][ _events # <<>> =>
          /\ reader' = reader
          /\ futures' = futures
          /\ pc' = pc
          /\ \/ _events' = _events /\ returned' = returned
             \/ /\ _events' = Tail(_events)
                /\ returned' = Append(returned, Head(_events))
                /\ readLog' = readLog
                /\ pending' = pending ]_vars

\* One read of three records was returned by three calls and one future.
C3_Witness ==
    /\ Len(futures) = 1
    /\ nreads = 1
    /\ Len(readLog) = 3
    /\ Len(returned) = 3
    /\ _events = <<>>
    /\ returned[2].name # returned[3].name

(* -------------------------------- C4 ----------------------------------- *)

\* the step is the consumer calling get(): only a call returns an Event
\* to an idle task or creates a future
GetCalled ==
    /\ pc[Consumer] = "idle"
    /\ returned' # returned \/ futures' # futures

\* C4: a get() called after close() fails with the error of a closed
\* handle: it returns no Event and does not suspend.
C4_GetAfterCloseFails ==
    [][ closeCalls > 0 /\ GetCalled =>
          /\ outcome'[Consumer] = "OSError"
          /\ pc'[Consumer] = "idle"
          /\ returned' = returned ]_vars

(* -------------------------------- C5 ----------------------------------- *)

\* C5: when a suspended get() ends by cancellation, no reader is
\* registered for the descriptor in the state it leaves.
C5_CancelledGetLeavesNoReader ==
    [][ \A t \in Tasks :
          pc[t] = "awaiting" /\ pc'[t] = "idle" /\ outcome'[t] = "CancelledError"
            => reader' = 0 ]_vars

(* -------------------------------- C6 ----------------------------------- *)

\* C6: after a get() was cancelled no record read from the descriptor is
\* consumed by a callback whose future can no longer take it, so the next
\* get() is handed the first record delivered after the cancellation.
C6_NoRecordLostAfterCancel ==
    cancels => lost = <<>>

(* -------------------------------- C7 ----------------------------------- *)

\* close() was called once, under a get() suspended on a pending future
\* (without a cancellation an idle consumer has no reader registered, and
\* then a get() on the closed descriptor raises instead of suspending)
ClosedUnderGet ==
    /\ fd = "closed"
    /\ releases = 1
    /\ ~cancels
    /\ pc[Consumer] = "awaiting"

\* C7: a get() that close() finds suspended ends eventually.
C7_CloseEndsSuspendedGet ==
    [](ClosedUnderGet => <>(pc[Consumer] = "idle"))

(* -------------------------------- C8 ----------------------------------- *)

\* C8: over any sequence of close() calls and scope exits, os.close
\* releases a descriptor through self._fd at most once, and leaving the
\* scope leaves the handle's descriptor released.
C8_ReleasedExactlyOnce ==
    /\ releases <= 1
    /\ ~inScope => releases = 1

(* -------------------------------- C9 ----------------------------------- *)

\* the step is _get reading a truncated read
TruncatedRead ==
    /\ pending # <<>>
    /\ Head(pending).cut > 0
    /\ pending' = Tail(pending)

\* C9: a truncated read gives no Event to any future or to the queue, and
\* the get() waiting for it is not left suspended on a pending future.
C9_TruncatedReadRejected ==
    [][ TruncatedRead =>
          /\ \A f \in 1..Len(futures) :
                futures'[f].state = "done" => futures[f].state = "done"
          /\ lost' = lost
          /\ _events' = _events
          /\ \A t \in Tasks :
                pc[t] = "awaiting" /\ fut[t] = reader
                  => futures'[fut[t]].state # "pending" ]_vars

(* -------------------------------- C10 ---------------------------------- *)

\* C10: of every trailer _get decodes, the name is absent when the trailer
\* is empty or starts with a zero byte; else it stands for the bytes before
\* the first zero byte, or for all of them when there is none; no byte
\* from the first zero on is part of it.
C10_NameUpToFirstZero ==
    [][ \A f \in 1..Len(futures) :
          Resolves(f) =>
            \A i \in 1..Len(Head(pending).recs) :
               LET trailer == Head(pending).recs[i].trailer
                   name    == futures'[f].result[i].name
                   zeros   == { j \in 1..Len(trailer) : trailer[j] = 0 }
               IN  /\ (name = None) <=> (Len(trailer) = 0 \/ trailer[1] = 0)
                   /\ name # None /\ zeros = {} => FsEncode(name) = trailer
                   /\ name # None /\ zeros # {} =>
                        \E z \in zeros :
                           /\ \A y \in zeros : z <= y
                           /\ FsEncode(name) = SubSeq(trailer, 1, z - 1) ]_vars

\* Names were taken from a trailer with bytes after its first zero, from
\* one without a zero, and none from a trailer of padding only.
C10_Witness ==
    /\ Len(futures) = 1
    /\ futures[1].state = "done"
    /\ Len(readLog) = 2
    /\ \/ /\ readLog[1].rec.trailer = << 102, 0, 111, 0 >>
          /\ futures[1].result[1].name = << 102 >>
          /\ readLog[2].rec.trailer = << 102, 111 >>
          /\ futures[1].result[2].name = << 102, 111 >>
       \/ /\ readLog[1].rec.trailer = << 0, 0 >>
          /\ futures[1].result[1].name = None
          /\ readLog[2].rec.trailer = << 255, 0 >>
          /\ futures[1].result[2].name = << 56575 >>

(* ------------------------ registry specification ----------------------- *)

DELETE_SELF == 1024

\* The kernel queues a read of two records: a file was created in a
\* watched directory, then the directory itself was deleted. The record
\* about the directory has no name.
DeliverSelf ==
    /\ fd = "inotify"
    /\ nreads < MaxReads
    /\ \E w \in KnownWds :
          pending' = Append(pending,
                            [ recs |-> << KernelRecord(w, Queued + 1),
                                          [ wd |-> w, mask |-> DELETE_SELF, cookie |-> 0,
                                            trailer |-> <<>> ] >>,
                              cut  |-> 0 ])
    /\ nreads' = nreads + 1
    /\ UNCHANGED << handleVars, watchVars, taskVars, _events, reader, futures,
                    readLog, returned, lost, cancels >>

\* The kernel queues a read of one record: a file was created in a watched
\* directory, or the queue overflowed.
DeliverOne ==
    /\ fd = "inotify"
    /\ nreads < MaxReads
    /\ \E w \in KnownWds \cup {-1} :
          pending' = Append(pending,
                            [ recs |-> << KernelRecord(w, Queued + 1) >>, cut |-> 0 ])
    /\ nreads' = nreads + 1
    /\ UNCHANGED << handleVars, watchVars, taskVars, _events, reader, futures,
                    readLog, returned, lost, cancels >>

\* The caller of add_watch drops the Watch it was returned.
release(id) ==
    /\ id \in held
    /\ held' = held \ {id}
    /\ UNCHANGED << handleVars, watchObjs, _watches, addFailed, addCalls, kwd, taskVars,
                    kernelVars, _events, reader, futures, readLog, returned, lost,
                    cancels >>

\* A program that registers several watches, drops some of the Watch
\* objects and consumes the events, its get() calls serialised.
NextWatch ==
    \/ /\ Len(watchObjs) < MaxRegistered
       /\ \E path \in Paths, mask \in AddMasks : add_watch(path, mask)
    \/ \E id \in 1..MaxRegistered : release(id)
    \/ DeliverOne
    \/ DeliverSelf
    \/ get(Consumer)
    \/ _get
    \/ get_resume(Consumer)

SpecWatch == Init /\ [][NextWatch]_vars

(* ------------------------- Event.watch, Event.path --------------------- *)

\* the Events that exist: queued, handed to a future, returned to a caller
AllEvents ==
    { _events[i] : i \in 1..Len(_events) }
      \cup { returned[i] : i \in 1..Len(returned) }
      \cup UNION { { futures[f].result[i] : i \in 1..Len(futures[f].result) } :
                   f \in 1..Len(futures) }

\* Event.__init__ keeping the Watch itself: the Event owns it
EventRefsStrong(e) == {e.watch} \ {0}

\* the Watches an Event owns: none, self._watch is weakref.ref(watch)
EventRefs(e) == {}

\* the owners of Watches: the registry and the callers of add_watch
Owned == { _watches[d] : d \in DOMAIN _watches } \cup held

\* the Watch objects that exist: those something refers to strongly
Alive == Owned \cup UNION { EventRefs(e) : e \in AllEvents }

\* Event.watch: the Watch the weak reference resolves to, 0 (None) when the
\* Event was built without one or the Watch is gone
EventWatch(e) == IF e.watch # 0 /\ e.watch \in Alive THEN e.watch ELSE 0

\* watch.path / name
Join(path, name) == << path, name >>

\* Event.path with the name not tested
EventPathWatchOnly(e) ==
    LET watch == EventWatch(e)
        name  == e.name
    IN  IF watch # 0 THEN Join(watchObjs[watch].path, name) ELSE None

\* Event.path
EventPath(e) ==
    LET watch == EventWatch(e)
        name  == e.name
    IN  IF watch # 0 /\ name # None THEN Join(watchObjs[watch].path, name) ELSE None

(* -------------------------------- C11 ---------------------------------- *)

\* C11: whatever add_watch calls succeeded or failed, the registry holds no
\* entry under descriptor -1, and the Event decoded from a record whose wd
\* is -1 has no watch.
C11_NoWatchUnderMinusOne ==
    /\ [](\A d \in DOMAIN _watches : d # -1)
    /\ [][ \A f \in 1..Len(futures) :
             Resolves(f) =>
               \A i \in 1..Len(Head(pending).recs) :
                  Head(pending).recs[i].wd = -1 => futures'[f].result[i].watch = 0 ]_vars

\* After a failed and a successful add_watch, an overflow record was
\* decoded to an Event without a watch.
C11_Witness ==
    /\ addFailed
    /\ _watches # <<>>
    /\ \E i \in 1..Len(returned) :
          /\ returned[i].watch = 0
          /\ returned[i].mask = Q_OVERFLOW
          /\ readLog[i].rec.wd = -1

(* -------------------------------- C12 ---------------------------------- *)

\* the step is a run of _get handing over Events none of which, decoded
\* from a record of the descriptor of Watch i, refers to a Watch of another
\* path or mask than the add_watch call that returned Watch i was given
DecodesTo(i) ==
    \A f \in 1..Len(futures) :
       Resolves(f) =>
         \A k \in 1..Len(Head(pending).recs) :
            LET w == futures'[f].result[k].watch
            IN  Head(pending).recs[k].wd = watchObjs[i].wd /\ w # 0 =>
                  /\ watchObjs[w].path = addCalls[i].path
                  /\ watchObjs[w].mask = addCalls[i].mask

\* a Watch never changes
WatchesFrozen ==
    \A i \in 1..Len(watchObjs) : Len(watchObjs') >= i /\ watchObjs'[i] = watchObjs[i]

\* C12 as stated: after add_watch(P, M) returned Watch i, the Events decoded
\* from records of its descriptor have watch.path = P and watch.mask = M
\* whatever add_watch calls on other paths followed; a Watch never changes.
C12_RoundTripOtherPaths ==
    [][ /\ WatchesFrozen
        /\ \A i \in 1..Len(watchObjs) :
              (\A j \in (i + 1)..Len(watchObjs) : addCalls[j].path # addCalls[i].path)
                 => DecodesTo(i) ]_vars

\* C12, amended: after add_watch(P, M) returned Watch i with descriptor d,
\* the Events decoded from records of d have watch.path = P and
\* watch.mask = M whatever add_watch calls returning other descriptors
\* followed; a Watch never changes.
C12_RoundTripOtherDescriptors ==
    [][ /\ WatchesFrozen
        /\ \A i \in 1..Len(watchObjs) :
              (\A j \in (i + 1)..Len(watchObjs) : watchObjs[j].wd # watchObjs[i].wd)
                 => DecodesTo(i) ]_vars

\* Two watches with different descriptors exist, and records of the first
\* were decoded after records of the second, each to its own Watch.
C12_Witness ==
    /\ Len(watchObjs) = 2
    /\ watchObjs[1].wd # watchObjs[2].wd
    /\ \E a, b \in 1..Len(readLog) :
          /\ a < b
          /\ readLog[a].watch = 2
          /\ readLog[b].watch = 1
          /\ Len(returned) >= b
          /\ returned[b].watch = 1

(* -------------------------------- C13 ---------------------------------- *)

\* C13: an add_watch whose registration fails reports the error and leaves
\* the registry, the Watch objects, the event queue, the reader and the
\* futures, the tasks and the descriptor as they were.
C13_FailedAddWatchChangesNothing ==
    [][ addFailed' /\ ~addFailed =>
          UNCHANGED << fd, releases, closeCalls, inScope, watchObjs, _watches, held,
                       addCalls, kwd, _events, reader, futures, pc, fut, mustCancel, outcome,
                       pending, nreads, readLog, returned, lost, cancels >> ]_vars

\* An add_watch failed on a handle with a watch, and get() has returned the
\* Events of that watch since.
C13_Witness ==
    /\ addFailed
    /\ Len(watchObjs) = 1
    /\ DOMAIN _watches = {1}
    /\ Len(returned) = 2
    /\ returned[1].watch = 1
    /\ returned[2].watch = 1

(* -------------------------------- C14 ---------------------------------- *)

\* C14: Event.path is watch.path joined with name when the Event's watch
\* resolves to a live Watch and its name is present, and absent otherwise.
C14_PathIffWatchAndName ==
    \A e \in AllEvents :
       IF EventWatch(e) # 0 /\ e.name # None
       THEN EventPath(e) = << watchObjs[EventWatch(e)].path, e.name >>
       ELSE EventPath(e) = None

\* Events exist with a path, without one for want of a name, and without
\* one because their Watch is gone.
C14_Witness ==
    \E e1, e2, e3 \in AllEvents :
       /\ EventPath(e1) # None
       /\ EventWatch(e2) # 0 /\ e2.name = None /\ EventPath(e2) = None
       /\ e3.watch # 0 /\ EventWatch(e3) = 0 /\ e3.name # None /\ EventPath(e3) = None

(* -------------------------------- C19 ---------------------------------- *)

\* C19: an Event does not own its Watch. Event.watch resolves to the Watch
\* the Event was built with while the registry or a caller holds that
\* Watch, and to none once neither does.
C19_EventWatchWhileOwned ==
    \A e \in AllEvents :
       e.watch # 0 => EventWatch(e) = IF e.watch \in Owned THEN e.watch ELSE 0

\* A returned Event was built with a Watch that a later add_watch of the
\* same descriptor replaced in the registry and the caller dropped: its
\* watch resolves to none.
C19_Witness ==
    \E i \in 1..Len(returned) :
       LET w == returned[i].watch
       IN  /\ w # 0
           /\ w \notin held
           /\ _watches[watchObjs[w].wd] # w
           /\ EventWatch(returned[i]) = 0

(* -------------------------------- C20 ---------------------------------- *)

BulkRead == pending # <<>> /\ pending' = Tail(pending) /\ fd' = fd

\* C15: a get() that finds the queue empty registers the reader callback
\* for its future; while it is suspended and not cancelled the callback
\* reads only for its pending future and resolves it, so it does not read
\* again before the get() resumes; and a get() that was suspended returns
\* an Event only from a resolved future.
C15_OneBulkReadPerGet ==
    [][ /\ pc[Consumer] = "idle" /\ pc'[Consumer] = "awaiting" =>
              /\ reader' = fut'[Consumer]
              /\ futures'[reader'].state = "pending"
        /\ ( /\ BulkRead
             /\ pc[Consumer] = "awaiting"
             /\ futures[fut[Consumer]].state # "cancelled" ) =>
              /\ reader = fut[Consumer]
              /\ futures[fut[Consumer]].state = "pending"
              /\ futures'[fut[Consumer]].state = "done"
        /\ ( /\ pc[Consumer] = "awaiting"
             /\ pc'[Consumer] = "idle"
             /\ outcome'[Consumer] = "Event" ) =>
              /\ futures[fut[Consumer]].state = "done"
              /\ reader' = 0 ]_vars

\* A get() that was suspended has returned an Event after one bulk read,
\* the callback is deregistered, and a second read is still queued.
C15_Witness ==
    /\ Len(futures) = 1
    /\ futures[1].state = "done"
    /\ pc[Consumer] = "idle"
    /\ outcome[Consumer] = "Event"
    /\ reader = 0
    /\ nreads = 2
    /\ Len(pending) = 1
    /\ ~cancels

(* -------------------------------- C16 ---------------------------------- *)

\* C16: a bulk read handed to a future leaves it a non-empty list, and a
\* suspended get() that resumes with the result of its future returns
\* exactly one Event, also when the read held no record.
C16_GetReturnsOneEvent ==
    [][ /\ \A f \in 1..Len(futures) : Resolves(f) => futures'[f].result # <<>>
        /\ ( /\ pc[Consumer] = "awaiting"
             /\ pc'[Consumer] = "idle"
             /\ futures[fut[Consumer]].state = "done"
             /\ ~mustCancel[Consumer] ) =>
              /\ outcome'[Consumer] = "Event"
              /\ Len(returned') = Len(returned) + 1 ]_vars

(* -------------------------------- C17 ---------------------------------- *)

\* One consumer on a handle that stays open, no get() cancelled.
NextOpen ==
    \/ Deliver
    \/ /\ Len(watchObjs) < MaxWatchObjs
       /\ \E path \in Paths, mask \in AddMasks : add_watch(path, mask)
    \/ get(Consumer)
    \/ _get
    \/ get_resume(Consumer)

\* The event loop runs the reader callback of a readable descriptor and a
\* task whose future is resolved.
FairOpenSpec ==
    Init /\ [][NextOpen]_vars /\ WF_pending(ReaderRuns) /\ WF_vars(get_resume(Consumer))

\* the consumer is suspended in get() on an empty queue, k records having
\* been read and returned so far, and a read of at least one record waits
SuspendedAndReadable(k) ==
    /\ pc[Consumer] = "awaiting"
    /\ futures[fut[Consumer]].state = "pending"
    /\ fd = "inotify"
    /\ pending # <<>>
    /\ Head(pending).recs # <<>>
    /\ Len(readLog) = k
    /\ Len(returned) = k

\* the get() after k returned Events has returned the Event of record k + 1
ReturnedRecord(k) ==
    /\ Len(returned) > k
    /\ Len(readLog) > k
    /\ EventOf(returned[k + 1], readLog[k + 1].rec, readLog[k + 1].watch)

\* C17: with one consumer, a get() suspended on the empty queue of an open
\* handle whose descriptor has a read of at least one record waiting
\* eventually returns the Event of the first record of that read.
C17_SuspendedGetReturns ==
    \A k \in 0..(MaxReads * MaxRecs) : SuspendedAndReadable(k) ~> ReturnedRecord(k)

\* The consumer was suspended while a read waited, and has returned the
\* Event of its first record.
C17_Witness ==
    /\ Len(futures) = 1
    /\ futures[1].state = "done"
    /\ pc[Consumer] = "idle"
    /\ outcome[Consumer] = "Event"
    /\ Len(readLog) >= 2
    /\ Len(returned) = 1
    /\ EventOf(returned[1], readLog[1].rec, readLog[1].watch)
    /\ Len(_events) = Len(readLog) - 1

(* -------------------------------- C18 ---------------------------------- *)

\* Two tasks call get() on one handle.
NextConc ==
    \/ Deliver
    \/ /\ Len(watchObjs) < MaxWatchObjs
       /\ \E path \in Paths, mask \in AddMasks : add_watch(path, mask)
    \/ \E t \in Tasks : get(t)
    \/ _get
    \/ \E t \in Tasks : get_resume(t)

SpecConc == Init /\ [][NextConc]_vars

\* task t is suspended in get() and the reader callback is not bound to
\* its future
Stranded(t) ==
    /\ pc[t] = "awaiting"
    /\ futures[fut[t]].state = "pending"
    /\ reader # fut[t]

\* C18: get() calls are not serialised: the registration of a get() that
\* suspends takes the place of the one before, and a suspended get() whose
\* future the reader callback is not bound to stays suspended, whatever
\* is read and whoever else is served.
C18_LaterGetReplacesEarlier ==
    [][ \A t \in Tasks :
          /\ pc[t] = "idle" /\ pc'[t] = "awaiting" => reader' = fut'[t]
          /\ Stranded(t) => /\ pc'[t] = "awaiting"
                            /\ fut'[t] = fut[t]
                            /\ futures'[fut[t]].state = "pending"
                            /\ reader' # fut[t] ]_vars

\* Both tasks suspended on the empty queue, the second after the first;
\* the second has returned an Event and deregistered the callback; the
\* first is still suspended while another read waits on the descriptor.
C18_Witness ==
    /\ Len(futures) = 2
    /\ fut[1] = 1
    /\ fut[2] = 2
    /\ Stranded(1)
    /\ reader = 0
    /\ pc[2] = "idle"
    /\ outcome[2] = "Event"
    /\ returned # <<>>
    /\ pending # <<>>

====
